---- MODULE Spec2Model ----
(***************************************************************************)
(* Model of the animation Ticker of konvas-kit (class Ticker, latest       *)
(* revision with elapsedTime/currentTime) and of the callers' callbacks.   *)
(*                                                                         *)
(* JavaScript values are modelled as records: Num(n) is the number n, NaN  *)
(* is NaN and Undef is undefined.  A handler of the class is one action;   *)
(* the handler's body is an operator from ticker state to ticker state.    *)
(***************************************************************************)
EXTENDS Integers, Sequences, FiniteSets, TLC

(* ------------------------------ bounds --------------------------------- *)
MaxDelay == 2
MaxNow == 1
\* the calls of loop callbacks one moveForward is followed for
MaxCalls == 4

\* the smallest delay a callback returns in the model (a negative number)
MinDelay == 0 - 1

\* the ids the callers use
Ids == {1, 2}

\* animated images have MaxFrames frames at most, a frame lasts MaxDuration
\* at most, and the wall clock of a shape's preview is followed up to
\* MaxFrameNow
MaxFrames == 3
MaxDuration == 2
MaxFrameNow == 6

\* a shape is given MaxLoads images at most, the first one included
MaxLoads == 2

(* --------------------------- JavaScript values ------------------------- *)
Num(n) == [t |-> "num", v |-> n]
NaN == [t |-> "nan", v |-> 0]
Undef == [t |-> "undef", v |-> 0]

IsNum(x) == x.t = "num"

\* x + y on numbers; NaN when an operand is NaN or undefined
JsAdd(x, y) == IF IsNum(x) /\ IsNum(y) THEN Num(x.v + y.v) ELSE NaN

\* x - y on numbers; NaN when an operand is NaN or undefined
JsSub(x, y) == IF IsNum(x) /\ IsNum(y) THEN Num(x.v - y.v) ELSE NaN

RECURSIVE SeqMin(_)
SeqMin(q) ==
  IF Len(q) = 1 THEN Head(q)
  ELSE LET m == SeqMin(Tail(q)) IN IF Head(q) < m THEN Head(q) ELSE m

RECURSIVE SeqMax(_)
SeqMax(q) ==
  IF Len(q) = 1 THEN Head(q)
  ELSE LET m == SeqMax(Tail(q)) IN IF Head(q) > m THEN Head(q) ELSE m

AllNum(times) == \A i \in 1..Len(times) : IsNum(times[i])

NumsOf(times) == [i \in 1..Len(times) |-> times[i].v]

\* mutant: the largest of the collected delays
MathMax(times) ==
  IF AllNum(times) THEN Num(SeqMax(NumsOf(times))) ELSE NaN

\* Math.min(...times) for a non-empty array: an undefined or NaN element
\* converts to NaN and makes the result NaN
MathMin(times) ==
  IF AllNum(times) THEN Num(SeqMin(NumsOf(times))) ELSE NaN

(* ------------------------- sequences as Set / Map ---------------------- *)
Range(q) == {q[i] : i \in 1..Len(q)}

\* Set.prototype.delete
SetDelete(q, x) == SelectSeq(q, LAMBDA y : y # x)

\* Set.prototype.add: insertion order is kept, an existing member stays put
SetAdd(q, x) == IF x \in Range(q) THEN q ELSE Append(q, x)

Keys(m) == {m[i].id : i \in 1..Len(m)}

\* Map.prototype.set: an existing key keeps its position
MapSet(m, id, reset) ==
  IF id \in Keys(m)
  THEN [i \in 1..Len(m) |-> IF m[i].id = id THEN [id |-> id, reset |-> reset] ELSE m[i]]
  ELSE Append(m, [id |-> id, reset |-> reset])

WithReset(m) == {m[i].id : i \in {j \in 1..Len(m) : m[j].reset}}

\* Map.prototype.delete
\* mutant: the deletion leaves the entry in the map
MapDeleteNone(m, id) == m

MapDelete(m, id) == SelectSeq(m, LAMBDA e : e.id # id)

(* ------------------------------- state --------------------------------- *)
VARIABLES
  hasWindow,   \* typeof window !== 'undefined'
  now,         \* Date.now()
  tk,          \* the Ticker object, and the timeouts of the host that run its previewLoop
  lastSeen,    \* elapsedTime the loop callbacks saw last, since the last replay (SpecSeen)
  ref,         \* the reference model of the calls register, stop and unregister
  twin,        \* a second ticker, given the same calls under another clock (SpecTwin)
  img          \* a shape with an animated image, and the closure of its loop callback (SpecFrames)

vars == <<hasWindow, now, tk, lastSeen, ref, twin, img>>

NoTimer == [pending |-> FALSE, due |-> 0]

\* what a loop callback returns: undefined, a negative number or a delay
Rets == {Undef, Num(MinDelay)} \cup {Num(d) : d \in 1..MaxDelay}

\* what one call of a loop callback does: it may stop its own animation,
\* and it returns a value
Outcomes ==
  [ret : Rets, stop : {FALSE}, how : {"returns"}]
    \cup {[ret |-> Num(1), stop |-> TRUE, how |-> "returns"]}

\* a callback that stops its animation, registers it again and returns, and
\* a callback that throws
Restarting == [ret |-> Num(1), stop |-> TRUE, how |-> "restarts"]
Throwing == [ret |-> Undef, stop |-> FALSE, how |-> "throws"]

\* the callbacks of the animations in ids return and act as chosen; the
\* callbacks of the other animations are not called
Idle == [ret |-> Undef, stop |-> FALSE, how |-> "returns"]
OutsFor(ids) == {out \in [Ids -> Outcomes] : \A i \in Ids \ ids : out[i] = Idle}

\* the same with callbacks that restart their animation or throw.  A tick
\* given a restarting callback does not end (RunLoops), so the actions draw
\* the callbacks from OutsFor, and the handlers are applied to these
\* callbacks where a claim is about them
HardOutsFor(ids) ==
  {out \in [Ids -> Outcomes \cup {Restarting, Throwing}] : \A i \in Ids \ ids : out[i] = Idle}

(* ----------------------------- the Ticker ------------------------------ *)
Emit(s, e) == [s EXCEPT !.log = Append(@, e)]

ClearTimeout(s) ==
  Emit([s EXCEPT !.previewTimeout = NoTimer], <<"clearTimeout", s.previewTimeout.pending>>)

\* the time at which a timeout set now with this delay is due: a delay that
\* is negative or NaN counts as 0
DueAfter(delay) == now + (IF IsNum(delay) /\ delay.v > 0 THEN delay.v ELSE 0)

RECURSIVE Insert(_, _)
Insert(q, x) ==
  IF q = <<>> THEN <<x>>
  ELSE IF x <= Head(q) THEN <<x>> \o q ELSE <<Head(q)>> \o Insert(Tail(q), x)

\* this.previewTimeout = setTimeout(..., delay): a timeout that is pending
\* when its handle is overwritten stays pending
SetTimeout(s, delay) ==
  Emit([s EXCEPT !.previewTimeout = [pending |-> TRUE, due |-> DueAfter(delay)],
                 !.orphans = IF s.previewTimeout.pending
                             THEN Insert(@, s.previewTimeout.due) ELSE @],
       <<"setTimeout", delay>>)

\* mutant: stop forgets the animation as unregister does
StopAnimationForget(s, id) ==
  LET s1 == Emit([s EXCEPT !.activeAnimations = SetDelete(@, id),
                           !.animations = MapDelete(@, id)], <<"stopAnimation", id>>)
  IN IF hasWindow /\ Len(s1.activeAnimations) = 0 THEN ClearTimeout(s1) ELSE s1

StopAnimation(s, id) ==
  LET s1 == Emit([s EXCEPT !.activeAnimations = SetDelete(@, id)], <<"stopAnimation", id>>)
  IN IF hasWindow /\ Len(s1.activeAnimations) = 0 THEN ClearTimeout(s1) ELSE s1

\* mutant: unregister leaves the animation active
UnregisterAnimationKeepActive(s, id) ==
  Emit([s EXCEPT !.animations = MapDelete(@, id)], <<"unregisterAnimation", id>>)

UnregisterAnimation(s, id) ==
  LET s1 == StopAnimation(Emit(s, <<"unregisterAnimation", id>>), id)
  IN [s1 EXCEPT !.animations = MapDelete(@, id)]

\* the entry of id has a reset callback
ResetOf(m, id) == \E i \in 1..Len(m) : m[i].id = id /\ m[i].reset

\* registerAnimation as a loop callback calls it for its own id, where
\* there is no window: it starts no loop (with a window it would run the
\* loop of the preview inside the tick; restarting callbacks are followed
\* without a window only)
Reregister(s, id) ==
  Emit([s EXCEPT !.animations = MapSet(@, id, ResetOf(@, id)),
                 !.activeAnimations = SetAdd(@, id)], <<"registerAnimation", id>>)

\* one call of the loop callback of id, which does o
CallLoop(s, id, o) ==
  LET s1 == Emit(s, <<"loop", id, s.elapsedTime, o.ret>>)
  IN IF o.how = "throws" THEN [s1 EXCEPT !.thrown = TRUE]
     ELSE IF o.how = "restarts" THEN Reregister(StopAnimation(s1, id), id)
     ELSE IF o.stop THEN StopAnimation(s1, id)
     ELSE s1

\* the for..of loop of moveForward over the live Set: an id deleted before
\* its turn is skipped, an id added (again) during the loop is visited at
\* the end.  remaining holds the ids still to visit; the loop is followed
\* for MaxCalls calls at most.  A callback that throws ends the loop and
\* the handlers that called it.
RECURSIVE RunLoops(_, _, _, _)
RunLoops(s, remaining, times, out) ==
  IF s.thrown \/ remaining = <<>> \/ Len(times) >= MaxCalls
  THEN [st |-> s, times |-> times]
  ELSE LET id == Head(remaining)
           o == out[id]
           added == IF o.how = "restarts" THEN {id} ELSE {}
       IN RunLoops(CallLoop(s, id, o),
                   SelectSeq(CallLoop(s, id, o).activeAnimations,
                             LAMBDA x : x \in Range(Tail(remaining)) \cup added),
                   IF o.how = "throws" THEN times ELSE Append(times, o.ret),
                   out)

\* moveForward reads the clock when currentTime is not set
SetCurrentTime(s) ==
  IF s.currentTime = Undef THEN [s EXCEPT !.currentTime = Num(now)] ELSE s

\* mutant: elapsedTime is taken from the time of the clock
AdvanceFromClock(r) ==
  IF Len(r.times) = 0
  THEN Emit([r.st EXCEPT !.ret = Undef], <<"moveForward", Undef>>)
  ELSE Emit([r.st EXCEPT !.elapsedTime = JsAdd(r.st.currentTime, MathMin(r.times)),
                         !.currentTime = JsAdd(@, MathMin(r.times)),
                         !.ret = MathMin(r.times)],
            <<"moveForward", MathMin(r.times)>>)

\* mutant: no collected delay counts as a delay of 0
AdvanceEmptyZero(r) ==
  LET willRenderIn == IF Len(r.times) = 0 THEN Num(0) ELSE MathMin(r.times)
  IN Emit([r.st EXCEPT !.elapsedTime = JsAdd(@, willRenderIn),
                       !.currentTime = JsAdd(@, willRenderIn),
                       !.ret = willRenderIn],
          <<"moveForward", willRenderIn>>)

\* the end of moveForward, the loop over the callbacks having collected r.times
Advance(r) ==
  IF r.st.thrown THEN r.st
  ELSE IF Len(r.times) = 0
  THEN Emit([r.st EXCEPT !.ret = Undef], <<"moveForward", Undef>>)
  ELSE Emit([r.st EXCEPT !.elapsedTime = JsAdd(@, MathMin(r.times)),
                         !.currentTime = JsAdd(@, MathMin(r.times)),
                         !.ret = MathMin(r.times)],
            <<"moveForward", MathMin(r.times)>>)

\* mutant: the tick takes elapsedTime from the time of the clock
MoveForwardFromClock(s, out) ==
  AdvanceFromClock(RunLoops(SetCurrentTime(s), s.activeAnimations, <<>>, out))

\* mutant: a tick over no active animation returns a delay of 0
MoveForwardEmptyZero(s, out) ==
  AdvanceEmptyZero(RunLoops(SetCurrentTime(s), s.activeAnimations, <<>>, out))

MoveForward(s, out) ==
  Advance(RunLoops(SetCurrentTime(s), s.activeAnimations, <<>>, out))

\* mutant: the timeout is set whether or not an animation is still active
ScheduleAlways(m) ==
  IF m.thrown THEN m
  ELSE IF m.ret # Undef
  THEN SetTimeout(Emit(m, <<"drawScene">>), m.ret)
  ELSE Emit(m, <<"drawScene">>)

\* the end of previewLoop, moveForward having returned m.ret
Schedule(m) ==
  IF m.thrown THEN m
  ELSE IF m.ret # Undef /\ Len(m.activeAnimations) > 0
  THEN SetTimeout(Emit(m, <<"drawScene">>), m.ret)
  ELSE Emit(m, <<"drawScene">>)

\* mutant: the loop of the preview leaves elapsedTime as the last tick left it
PreviewLoopNoResync(s, out) ==
  IF Len(s.activeAnimations) = 0
  THEN [s EXCEPT !.previewStartTime = Undef]
  ELSE Schedule(MoveForward(Emit([s EXCEPT !.currentTime = Num(now)],
                                 <<"previewLoop", s.elapsedTime>>), out))

PreviewLoop(s, out) ==
  IF Len(s.activeAnimations) = 0
  THEN [s EXCEPT !.previewStartTime = Undef]
  ELSE Schedule(MoveForward(Emit([s EXCEPT !.elapsedTime = JsSub(Num(now), s.previewStartTime),
                                           !.currentTime = Num(now)],
                                 <<"previewLoop", JsSub(Num(now), s.previewStartTime)>>), out))

\* mutant: startPreview restarts the loop whatever previewStartTime holds
StartPreviewAlways(s, out) ==
  PreviewLoop([s EXCEPT !.previewStartTime = Num(now)], out)

StartPreview(s, out) ==
  IF s.previewStartTime # Undef
  THEN s
  ELSE PreviewLoop([s EXCEPT !.previewStartTime = Num(now)], out)

\* mutant: register keeps the pending timeout and does not tick
RegisterAnimationLazy(s, id, reset, out) ==
  LET s1 == Emit([s EXCEPT !.animations = MapSet(@, id, reset),
                           !.activeAnimations = SetAdd(@, id)], <<"registerAnimation", id>>)
  IN IF hasWindow /\ Len(s1.activeAnimations) = 1 THEN StartPreview(s1, out) ELSE s1

RegisterAnimation(s, id, reset, out) ==
  LET s1 == Emit([s EXCEPT !.animations = MapSet(@, id, reset),
                           !.activeAnimations = SetAdd(@, id)], <<"registerAnimation", id>>)
  IN IF hasWindow
     THEN IF Len(s1.activeAnimations) = 1
          THEN StartPreview(s1, out)
          ELSE IF Len(s1.activeAnimations) > 1
               THEN PreviewLoop(ClearTimeout(s1), out)
               ELSE s1
     ELSE s1

\* the for..of loop of replayPreview over the entries of the Map; the reset
\* callback of an animation in again registers the animation (as the reset
\* callback of Image does), any other reset callback leaves the ticker alone
ResetEntry(s, e, again, out) ==
  IF e.reset /\ e.id \in again
  THEN RegisterAnimation(Emit(s, <<"reset", e.id>>), e.id, TRUE, out)
  ELSE IF e.reset THEN Emit(s, <<"reset", e.id>>)
  ELSE s

\* mutant: the replay reactivates no animation
AddBackNever(s, id) == s

\* this.activeAnimations.add(id), unless the reset callback threw
AddBack(s, id) ==
  IF s.thrown THEN s ELSE [s EXCEPT !.activeAnimations = SetAdd(@, id)]

RECURSIVE RunResets(_, _, _, _)
RunResets(s, i, again, out) ==
  IF s.thrown \/ i > Len(s.animations) THEN s
  ELSE RunResets(AddBack(ResetEntry(s, s.animations[i], again, out), s.animations[i].id),
                 i + 1, again, out)

\* the end of replayPreview, unless a reset callback threw
Restart(s, out) == IF s.thrown THEN s ELSE StartPreview(s, out)

ReplayPreview(s, again, out) ==
  Restart(RunResets(ClearTimeout([s EXCEPT !.elapsedTime = Num(0), !.previewStartTime = Undef]),
                    1, again, out), out)

\* animation.loop() with no entry of the Map for an active id: animation is
\* undefined and the call throws
LookupThrows(s, out) ==
  [i \in Ids |-> IF i \in Range(s.activeAnimations) \ Keys(s.animations)
                 THEN Throwing ELSE out[i]]

\* the same loop of replayPreview with reset callbacks that unregister:
\* the reset callback of an animation in gone unregisters the animation (as
\* the destroy of a shape does)
ResetEntryGone(s, e, again, gone, out) ==
  IF e.reset /\ e.id \in gone
  THEN UnregisterAnimation(Emit(s, <<"reset", e.id>>), e.id)
  ELSE ResetEntry(s, e, again, LookupThrows(s, out))

\* todo holds the entries of the Map still to visit
RECURSIVE RunResetsGone(_, _, _, _, _)
RunResetsGone(s, todo, again, gone, out) ==
  IF s.thrown \/ todo = <<>> THEN s
  ELSE RunResetsGone(AddBack(ResetEntryGone(s, Head(todo), again, gone, out), Head(todo).id),
                     Tail(todo), again, gone, out)

RestartGone(s, out) == Restart(s, LookupThrows(s, out))

ReplayPreviewGone(s, again, gone, out) ==
  RestartGone(RunResetsGone(ClearTimeout([s EXCEPT !.elapsedTime = Num(0),
                                                   !.previewStartTime = Undef]),
                            s.animations, again, gone, out), out)

(* ------------------------------ actions -------------------------------- *)
TickerInit ==
  [animations |-> <<>>, activeAnimations |-> <<>>,
   elapsedTime |-> Num(0), currentTime |-> Undef,
   previewStartTime |-> Undef, previewTimeout |-> NoTimer, orphans |-> <<>>,
   ret |-> Undef, log |-> <<>>, thrown |-> FALSE]

(* the reference model: two sets of ids *)
RefInit == [keys |-> {}, active |-> {}]
RefRegister(a, id) == [keys |-> a.keys \cup {id}, active |-> a.active \cup {id}]
RefStop(a, id) == [keys |-> a.keys, active |-> a.active \ {id}]
RefUnregister(a, id) == [keys |-> a.keys \ {id}, active |-> a.active \ {id}]

\* the reference model after the calls among l, made in that order
RECURSIVE RefRun(_, _)
RefRun(a, l) ==
  IF l = <<>> THEN a
  ELSE LET e == Head(l)
       IN RefRun(IF e[1] = "registerAnimation" THEN RefRegister(a, e[2])
                 ELSE IF e[1] = "stopAnimation" THEN RefStop(a, e[2])
                 ELSE IF e[1] = "unregisterAnimation" THEN RefUnregister(a, e[2])
                 ELSE a,
                 Tail(l))

\* the sets of the ticker the reference model stands for
Abs(s) == [keys |-> Keys(s.animations), active |-> Range(s.activeAnimations)]

\* a shape whose image has the frame durations d; loops tells what the
\* decoder does when asked for the frame after the last one: it starts over
\* with the first frame, or it stays on the last one.  frameCount,
\* animationFrame and animationTime are the variables of the closure of the
\* loop callback registered last, loads counts the images decoded for the
\* shape
Image(d, loops) ==
  [durations |-> d, loops |-> loops, cursor |-> 0, shown |-> 0 - 1, id |-> 0,
   frameCount |-> 0, animationFrame |-> 0, animationTime |-> 0, started |-> FALSE,
   loads |-> 0, destroyed |-> FALSE,
   ret |-> Undef, acts |-> <<>>]

\* a shape with a still image
NoImage == Image(<<1>>, FALSE)

Init ==
  /\ hasWindow \in BOOLEAN
  /\ now = 0
  /\ tk = TickerInit
  /\ lastSeen = Undef
  /\ ref = RefInit
  /\ twin = TickerInit
  /\ img = NoImage

\* the calls of loop callbacks among the calls l, in call order
Loops(l) == SelectSeq(l, LAMBDA e : e[1] = "loop")

\* the ticker as a handler finds it: nothing called yet, nothing returned
Start == [tk EXCEPT !.log = <<>>, !.ret = Undef, !.thrown = FALSE]

\* the ticker as the handler that ended in s leaves it
Rest(s) == [s EXCEPT !.log = <<>>, !.ret = Undef, !.thrown = FALSE]

\* what lastSeen is after the handler that ended in s
SeenAfter(s, replay) ==
  IF Loops(s.log) # <<>> THEN Loops(s.log)[Len(Loops(s.log))][3]
  ELSE IF replay THEN Undef ELSE lastSeen

\* a handler has run; lastSeen is kept up to date when seen is TRUE; the
\* reference model follows the calls made, and replayPreview, which is not
\* one of its calls, sets it anew
Done(s, replay, seen) ==
  /\ tk' = Rest(s)
  /\ lastSeen' = IF seen THEN SeenAfter(s, replay) ELSE lastSeen
  /\ ref' = IF replay THEN Abs(s) ELSE RefRun(ref, s.log)
  /\ UNCHANGED <<hasWindow, now, twin, img>>

\* the caller drives the virtual clock no further than the wall clock goes
InBound(s) ==
  /\ IsNum(s.elapsedTime) => s.elapsedTime.v \in (0 - MaxNow)..MaxNow
  /\ IsNum(s.currentTime) => s.currentTime.v \in (0 - MaxNow)..(2 * MaxNow)

Active == Range(tk.activeAnimations)

\* the inputs of a handler: what the loop callbacks it may call will do
\* (register and startPreview call no callback when they start no loop)
RegisterOuts(id) ==
  OutsFor(IF hasWindow /\ (Active \cup {id} # {id} \/ tk.previewStartTime = Undef)
          THEN Active \cup {id} ELSE {})
TickOuts == OutsFor(Active)
StartOuts == OutsFor(IF tk.previewStartTime = Undef THEN Active ELSE {})
ReplayOuts == OutsFor(Active \cup Keys(tk.animations))
Agains == SUBSET WithReset(tk.animations)

\* the callers of the ticker call it while no timeout is orphaned; once one
\* is, only the timeouts run on (and stop and unregister stay possible)
Orphanless == tk.orphans = <<>>


Register(seen) ==
  \E id \in Ids, reset \in BOOLEAN :
    \E out \in RegisterOuts(id) :
      /\ Orphanless
      /\ Done(RegisterAnimation(Start, id, reset, out), FALSE, seen)

Stop(seen) ==
  \E id \in Ids :
    LET r == StopAnimation(Start, id)
    IN Done(r, FALSE, seen)

Unregister(seen) ==
  \E id \in Ids :
    LET r == UnregisterAnimation(Start, id)
    IN Done(r, FALSE, seen)

\* the caller of the ticker calls moveForward
Tick(seen) ==
  /\ InBound(tk)
  /\ Orphanless
  /\ \E out \in TickOuts : Done(MoveForward(Start, out), FALSE, seen)

StartRealtime(seen) ==
  /\ Orphanless
  /\ \E out \in StartOuts : Done(StartPreview(Start, out), FALSE, seen)

Replay(seen) ==
  /\ Orphanless
  /\ \E again \in Agains :
       \E out \in ReplayOuts : Done(ReplayPreview(Start, again, out), TRUE, seen)

\* the timeout fires: its callback runs previewLoop
Fired == [Start EXCEPT !.previewTimeout = NoTimer]

TimerFire(seen) ==
  /\ tk.previewTimeout.pending
  /\ now >= tk.previewTimeout.due
  /\ \E out \in TickOuts : Done(PreviewLoop(Fired, out), FALSE, seen)

\* a timeout whose handle was overwritten fires: its callback runs previewLoop
Orphaned(i) == [Start EXCEPT !.orphans = SubSeq(@, 1, i - 1) \o SubSeq(@, i + 1, Len(@))]

OrphanFire(seen) ==
  \E i \in 1..Len(tk.orphans) :
    /\ now >= tk.orphans[i]
    /\ \E out \in TickOuts : Done(PreviewLoop(Orphaned(i), out), FALSE, seen)

\* wall-clock time passes
ClockAdvance ==
  /\ now < MaxNow
  /\ now' = now + 1
  /\ UNCHANGED <<hasWindow, tk, lastSeen, ref, twin, img>>

Handlers(seen) ==
  \/ Register(seen)
  \/ Stop(seen)
  \/ Unregister(seen)
  \/ Tick(seen)
  \/ StartRealtime(seen)
  \/ Replay(seen)
  \/ TimerFire(seen)
  \/ OrphanFire(seen)
  \/ ClockAdvance

Next == Handlers(FALSE)

Spec == Init /\ [][Next]_vars

\* the same program with lastSeen recorded
NextSeen == Handlers(TRUE)

SpecSeen == Init /\ [][NextSeen]_vars

(***************************************************************************)
(* Two runs without a window: the ticker and its twin receive the same     *)
(* calls, and their callbacks answer the same, while the twin reads        *)
(* another clock.  moveForward reads the clock when currentTime is not set *)
(* yet, and nowhere else.                                                  *)
(***************************************************************************)
TwinClock == 0..(MaxNow + 1)

\* moveForward under a clock that reads n
TwinMoveForward(n, s, out) ==
  MoveForward(IF s.currentTime = Undef THEN [s EXCEPT !.currentTime = Num(n)] ELSE s, out)

TwinStart == Rest(twin)

TwinDone(s, s2) ==
  /\ tk' = Rest(s)
  /\ twin' = Rest(s2)
  /\ ref' = RefRun(ref, s.log)
  /\ UNCHANGED <<hasWindow, now, lastSeen, img>>

TwinRegister ==
  \E id \in Ids, reset \in BOOLEAN : \E out \in OutsFor({}) :
    /\ ~hasWindow
    /\ TwinDone(RegisterAnimation(Start, id, reset, out),
                RegisterAnimation(TwinStart, id, reset, out))

TwinStop ==
  \E id \in Ids :
    /\ ~hasWindow
    /\ TwinDone(StopAnimation(Start, id), StopAnimation(TwinStart, id))

TwinUnregister ==
  \E id \in Ids :
    /\ ~hasWindow
    /\ TwinDone(UnregisterAnimation(Start, id), UnregisterAnimation(TwinStart, id))

TwinTick ==
  \E out \in TickOuts, n \in TwinClock :
    /\ ~hasWindow
    /\ InBound(tk)
    /\ TwinDone(MoveForward(Start, out), TwinMoveForward(n, TwinStart, out))

NextTwin ==
  \/ TwinRegister
  \/ TwinStop
  \/ TwinUnregister
  \/ TwinTick
  \/ ClockAdvance

InitTwin == Init /\ ~hasWindow

SpecTwin == InitTwin /\ [][NextTwin]_vars

(***************************************************************************)
(* A shape with an animated image (Image, RichText).  _startAnimation      *)
(* shows the first frame and registers a loop callback that decodes the    *)
(* frames the elapsed time has reached, and a reset callback that calls    *)
(* _startAnimation again.  The callback reads ticker.elapsedTime; img.acts *)
(* holds what the shape did to its image in the last handler run.          *)
(***************************************************************************)
Act(a, e) == [a EXCEPT !.acts = Append(@, e)]

Quiet(a) == [a EXCEPT !.acts = <<>>, !.ret = Undef]

GetFrameCount(a) == Len(a.durations)

\* the event holds the frame the decoder was on
ResetImage(a) == Act([a EXCEPT !.cursor = 0], <<"reset", a.cursor>>)

CurrentFrameDuration(a) == a.durations[a.cursor + 1]

\* the event holds the frame the decoder was on
DecodeNextFrame(a) ==
  Act([a EXCEPT !.cursor = IF a.cursor + 1 < GetFrameCount(a) THEN a.cursor + 1
                           ELSE IF a.loops THEN 0 ELSE a.cursor],
      <<"decodeNextFrame", a.cursor>>)

MakeImageAtCurrentFrame(a) ==
  Act([a EXCEPT !.shown = a.cursor], <<"makeImageAtCurrentFrame", a.cursor>>)

\* _startAnimation up to its call of registerAnimation; with a still image
\* it returns early and the closure registered before, if any, stays
StartAnimation(a) ==
  IF GetFrameCount(a) <= 1
  THEN MakeImageAtCurrentFrame(ResetImage(a))
  ELSE [MakeImageAtCurrentFrame(ResetImage(a)) EXCEPT
          !.frameCount = GetFrameCount(a),
          !.animationFrame = 1,
          !.animationTime = a.durations[1],
          !.started = TRUE]

\* ticker.elapsedTime >= animationTime
Late(a, e) == IsNum(e) /\ e.v >= a.animationTime

AddDuration(a) == [a EXCEPT !.animationTime = @ + CurrentFrameDuration(a)]

Decoded(a) == AddDuration(DecodeNextFrame(a))

Display(a) == [MakeImageAtCurrentFrame(a) EXCEPT !.animationFrame = @ + 1]

\* the end of a pass of the while loop that displays a frame
RECURSIVE FrameLoop(_, _)
Displayed(a, e) ==
  IF a.animationFrame >= a.frameCount
  THEN Act(a, <<"stopAnimation">>)
  ELSE FrameLoop(a, e)

\* mutant: no decoded frame is skipped
SkipsNever(a, e) == FALSE

\* the frame just decoded is not displayed: its time is over as well
Skips(a, e) == Late(a, e)

\* the while loop of the loop callback, the elapsed time being e
FrameLoop(a, e) ==
  IF ~Late(a, e) THEN a
  ELSE IF Skips(Decoded(a), e) THEN FrameLoop(Decoded(a), e)
  ELSE Displayed(Display(Decoded(a)), e)

Returned(a, e) == [a EXCEPT !.ret = JsSub(Num(a.animationTime), e)]

\* one call of the loop callback
LoopCallback(a, e) == Returned(FrameLoop(Act(a, <<"loop", e>>), e), e)

Stops(a) == \E i \in 1..Len(a.acts) : a.acts[i] = <<"stopAnimation">>

\* what the call does, as the ticker sees it
FrameOutcome(a) == [ret |-> a.ret, stop |-> Stops(a), how |-> "returns"]

FrameOuts(a, e) ==
  [i \in Ids |-> IF i = a.id THEN FrameOutcome(LoopCallback(a, e)) ELSE Idle]

\* the images of the shapes
FrameSeqs == UNION {[1..n -> 1..MaxDuration] : n \in 1..MaxFrames}
Images == {Image(d, loops) : d \in FrameSeqs, loops \in BOOLEAN}

\* the elapsed times a call of the loop callback may find
FrameElapsed == {NaN} \cup {Num(k) : k \in 0..MaxFrameNow}

\* a handler of the ticker has run and ended in r, the shape being a before
\* its loop callback was called; the callback was called once at most and
\* found the elapsed time e
FrameDone(r, a, e) ==
  /\ Len(Loops(r.log)) <= 1
  /\ \A i \in 1..Len(Loops(r.log)) : Loops(r.log)[i][3] = e
  /\ tk' = Rest(r)
  /\ img' = IF Loops(r.log) = <<>> THEN a ELSE LoopCallback(a, e)
  /\ UNCHANGED <<hasWindow, now, lastSeen, ref, twin>>

Named(a, id) == [a EXCEPT !.id = id]

\* _setImageLoad up to its call of _startAnimation: the decoder the shape
\* had is deleted and the image b is decoded
Loaded(a, b) ==
  [a EXCEPT !.durations = b.durations, !.loops = b.loops, !.cursor = 0, !.loads = @ + 1]

\* _setImageLoad on the shape a given the image b, the callback finding the
\* elapsed time e if registerAnimation calls it
SetImageLoad(a, b, e) ==
  IF GetFrameCount(b) <= 1
  THEN /\ img' = StartAnimation(Loaded(a, b))
       /\ UNCHANGED <<hasWindow, now, tk, lastSeen, ref, twin>>
  ELSE FrameDone(RegisterAnimation(Start, a.id, TRUE, FrameOuts(StartAnimation(Loaded(a, b)), e)),
                 StartAnimation(Loaded(a, b)), e)

\* the elapsed time the callback finds when registerAnimation calls it: the
\* only animation is registered, so that the call is the first of a preview
\* that startPreview starts
AtRegister == {Num(0)}

\* the shape is made with its image: the constructor calls _setImageLoad
FrameStart ==
  /\ img.shown < 0
  /\ \E id \in Ids, e \in AtRegister :
       SetImageLoad(Named(img, id), img, e)

\* the image of the shape is set anew: imageChange calls _setImageLoad
FrameSetImage ==
  /\ img.shown >= 0
  /\ ~img.destroyed
  /\ img.loads < MaxLoads
  /\ \E b \in Images, e \in AtRegister :
       SetImageLoad(Quiet(img), b, e)

\* the ticker holds a loop callback of the shape
Registered(a) == a.id \in Keys(tk.animations)

\* destroy: the image and the decoder are deleted; the animation is
\* unregistered if getLayer() still answers the layer once super.destroy()
\* has run, and stays registered (and active, its timeout pending) if not
FrameDestroy ==
  /\ img.shown >= 0
  /\ ~img.destroyed
  /\ \E layer \in BOOLEAN :
       /\ img' = [Quiet(img) EXCEPT !.destroyed = TRUE, !.started = FALSE]
       /\ tk' = IF layer THEN Rest(UnregisterAnimation(Start, img.id)) ELSE Rest(Start)
  /\ UNCHANGED <<hasWindow, now, lastSeen, ref, twin>>

\* the loop callback of a destroyed shape reaches decodeNextFrame: the
\* decoder is deleted, and the call on it answers as before or throws
Deleted(a, e) == a.destroyed /\ Late(a, e)

ThrowOuts(a) == [i \in Ids |-> IF i = a.id THEN Throwing ELSE Idle]

\* a handler of the ticker has run and ended in r, the loop callback of the
\* shape a having thrown on its deleted decoder
FrameThrown(r, a, e) ==
  /\ Deleted(a, e)
  /\ Len(Loops(r.log)) = 1
  /\ Loops(r.log)[1][3] = e
  /\ tk' = Rest(r)
  /\ img' = Act(a, <<"loop", e>>)
  /\ UNCHANGED <<hasWindow, now, lastSeen, ref, twin>>

\* the caller of a ticker without a window calls moveForward
FrameTick ==
  /\ ~hasWindow
  /\ Registered(img)
  /\ IsNum(tk.elapsedTime) => tk.elapsedTime.v <= MaxFrameNow
  /\ IsNum(tk.currentTime) => tk.currentTime.v <= 2 * MaxFrameNow
  /\ \E e \in FrameElapsed :
       \/ FrameDone(MoveForward(Start, FrameOuts(Quiet(img), e)), Quiet(img), e)
       \/ FrameThrown(MoveForward(Start, ThrowOuts(img)), Quiet(img), e)

\* the timeout fires
FrameTimer ==
  /\ tk.previewTimeout.pending
  /\ now >= tk.previewTimeout.due
  /\ \E e \in FrameElapsed :
       \/ FrameDone(PreviewLoop(Fired, FrameOuts(Quiet(img), e)), Quiet(img), e)
       \/ FrameThrown(PreviewLoop(Fired, ThrowOuts(img)), Quiet(img), e)

\* the ids the reset callback of the shape registers: its own, unless its
\* image is a still image by now
Reregisters(a) == IF GetFrameCount(a) <= 1 THEN {} ELSE {a.id}

\* replayPreview when the reset callback of the only animation throws: the
\* for..of loop ends there
ReplayPreviewThrown(s, id) ==
  [Emit(ClearTimeout([s EXCEPT !.elapsedTime = Num(0), !.previewStartTime = Undef]),
        <<"reset", id>>) EXCEPT !.thrown = TRUE]

\* _startAnimation of a destroyed shape that stayed registered, as far as
\* it gets: the first call on the deleted decoder answers as before or
\* throws, and with an animated image this.getLayer().ticker throws, the
\* shape being out of its layer
Detached(a) ==
  {a} \cup (IF GetFrameCount(a) <= 1 THEN {} ELSE {MakeImageAtCurrentFrame(ResetImage(a))})

\* replayPreview: the reset callback of the shape calls _startAnimation; the
\* loop callback the restarted preview calls finds the elapsed time 0, before
\* the end of the first frame, and makes no call on the decoder
FrameReplay ==
  /\ Registered(img)
  /\ \/ /\ ~img.destroyed \/ GetFrameCount(img) <= 1
        /\ \E e \in FrameElapsed :
             FrameDone(ReplayPreview(Start, Reregisters(img), FrameOuts(StartAnimation(Quiet(img)), e)),
                       StartAnimation(Quiet(img)), e)
     \/ /\ img.destroyed
        /\ tk' = Rest(ReplayPreviewThrown(Start, img.id))
        /\ img' \in Detached(Quiet(img))
        /\ UNCHANGED <<hasWindow, now, lastSeen, ref, twin>>

FrameClock ==
  /\ now < MaxFrameNow
  /\ now' = now + 1
  /\ UNCHANGED <<hasWindow, tk, lastSeen, ref, twin, img>>

NextFrames ==
  \/ FrameStart
  \/ FrameSetImage
  \/ FrameDestroy
  \/ FrameTick
  \/ FrameTimer
  \/ FrameReplay
  \/ FrameClock

InitFrames ==
  /\ hasWindow \in BOOLEAN
  /\ now = 0
  /\ tk = TickerInit
  /\ lastSeen = Undef
  /\ ref = RefInit
  /\ twin = TickerInit
  /\ img \in Images

SpecFrames == InitFrames /\ [][NextFrames]_vars

(***************************************************************************)
(* One call of the loop callback, pass by pass of its while loop.  The     *)
(* animation of the shape is registered and active, a tick calls the       *)
(* callback, and ticker.elapsedTime stays as it is during the call.  The   *)
(* images have two frames or more, and frames may last no time at all.     *)
(***************************************************************************)
LongSeqs == UNION {[1..n -> 0..MaxDuration] : n \in 2..MaxFrames}
LongImages == {Image(d, loops) : d \in LongSeqs, loops \in BOOLEAN}

\* the ticker during a tick at the elapsed time e, the animation id active.
\* moveForward has set currentTime by then; with a window the tick is one of
\* the loop of the preview, which started e before now and has set
\* currentTime to the time of the clock
Ticking(id, e) ==
  [TickerInit EXCEPT !.animations = <<[id |-> id, reset |-> TRUE]>>,
                     !.activeAnimations = <<id>>,
                     !.elapsedTime = e,
                     !.currentTime = IF hasWindow THEN Num(now) ELSE JsAdd(Num(now), e),
                     !.previewStartTime = IF hasWindow THEN JsSub(Num(now), e) ELSE Undef]

\* the call is under way: the callback was called and has not returned
InCall(a) == a.acts # <<>> /\ a.acts[1][1] = "loop" /\ a.ret = Undef

\* the passes made so far in the call are odd in number
Odd(a) == Len(a.acts) >= 2 /\ a.acts[2] = <<"pass", 1>>

\* a pass has ended: of the events of the call only its first is kept,
\* and whether the passes made are odd or even in number
Pass(a) == [a EXCEPT !.acts = <<a.acts[1], <<"pass", IF Odd(a) THEN 0 ELSE 1>>>>]

\* the tick calls the callback
LoopCall ==
  /\ img.acts = <<>>
  /\ img' = Act(img, <<"loop", tk.elapsedTime>>)
  /\ UNCHANGED <<hasWindow, now, tk, lastSeen, ref, twin>>

\* a pass that decodes a frame and skips it
LoopSkip ==
  /\ InCall(img)
  /\ Late(img, tk.elapsedTime)
  /\ Skips(Decoded(img), tk.elapsedTime)
  /\ img' = Pass(Decoded(img))
  /\ UNCHANGED <<hasWindow, now, tk, lastSeen, ref, twin>>

\* a pass that decodes a frame and displays it; at the end of the
\* animation it stops the animation and the callback returns
LoopDisplay ==
  /\ InCall(img)
  /\ Late(img, tk.elapsedTime)
  /\ ~Skips(Decoded(img), tk.elapsedTime)
  /\ IF Display(Decoded(img)).animationFrame >= img.frameCount
     THEN /\ img' = Returned(Pass(Display(Decoded(img))), tk.elapsedTime)
          /\ tk' = Rest(StopAnimation(Start, img.id))
     ELSE /\ img' = Pass(Display(Decoded(img)))
          /\ tk' = tk
  /\ UNCHANGED <<hasWindow, now, lastSeen, ref, twin>>

\* the condition of the while loop is false: the callback returns
LoopReturn ==
  /\ InCall(img)
  /\ ~Late(img, tk.elapsedTime)
  /\ img' = Returned(img, tk.elapsedTime)
  /\ UNCHANGED <<hasWindow, now, tk, lastSeen, ref, twin>>

NextLoop ==
  \/ LoopCall
  \/ LoopSkip
  \/ LoopDisplay
  \/ LoopReturn

\* with a window the elapsed time is a number, the time of the clock since
\* the start of the preview at 0
InitLoop ==
  /\ hasWindow \in BOOLEAN
  /\ \E id \in Ids, e \in FrameElapsed, a \in LongImages :
       /\ hasWindow => IsNum(e)
       /\ now = IF hasWindow THEN e.v ELSE 0
       /\ tk = Ticking(id, e)
       /\ img = Quiet(Named(StartAnimation(Loaded(a, a)), id))
  /\ lastSeen = Undef
  /\ ref = RefInit
  /\ twin = TickerInit

\* the call runs on until it returns
SpecLoop == InitLoop /\ [][NextLoop]_vars /\ WF_vars(NextLoop)

(***************************************************************************)
(* The claims.  A claim about a handler is stated over every call of the   *)
(* handler the ticker can receive in a reachable state: the handler is     *)
(* applied to the ticker as it stands (Start) and its result is compared   *)
(* with the ticker before the call.                                        *)
(***************************************************************************)

\* the values the callbacks of one handler run returned, in call order
Delays(l) == [i \in 1..Len(Loops(l)) |-> Loops(l)[i][4]]

\* the ids whose callbacks one handler run called, in call order
Called(l) == [i \in 1..Len(Loops(l)) |-> Loops(l)[i][2]]

\* the handler run made an event of this name
Has(l, name) == \E i \in 1..Len(l) : l[i][1] = name

\* the least of a non-empty set of integers
Least(S) == CHOOSE m \in S : \A x \in S : m <= x

\* the timer of the preview is due
TimerDue == tk.previewTimeout.pending /\ now >= tk.previewTimeout.due

\* one tick ran in r, all its callbacks returned numbers: the tick returned
\* the least of them and left elapsedTime at before plus that least
LeastRule(r, before) ==
  LET ds == Delays(r.log)
  IN (ds # <<>> /\ AllNum(ds) /\ IsNum(before)) =>
       LET m == Least({ds[i].v : i \in 1..Len(ds)})
       IN /\ r.ret = Num(m)
          /\ r.elapsedTime = Num(before.v + m)

\* C1: a tick calls back the active tasks, returns the least of the delays
\* they return and adds exactly that least delay to ElapsedTime; so does
\* the tick the timer of the preview runs, from the elapsed time it starts at.
C1_TickAdvancesByLeastDelay ==
  /\ \A out \in TickOuts :
       LET r == MoveForward(Start, out)
       IN /\ LeastRule(r, tk.elapsedTime)
          /\ Range(Called(r.log)) = Active
  /\ TimerDue =>
       \A out \in TickOuts :
         LET r == PreviewLoop(Fired, out)
         IN Active # {} => LeastRule(r, Loops(r.log)[1][3])

\* C1 witness: two active tasks answer 2 and 1, the tick returns 1 and
\* ElapsedTime goes from 0 to 1
C1_Witness ==
  /\ tk.activeAnimations = <<1, 2>>
  /\ tk.elapsedTime = Num(0)
  /\ \E out \in TickOuts :
       /\ out[1].ret = Num(2) /\ out[2].ret = Num(1)
       /\ MoveForward(Start, out).ret = Num(1)
       /\ MoveForward(Start, out).elapsedTime = Num(1)

\* elapsedTime after the tick of the handler run l, if it ran one, from e
AfterTick(e, l) ==
  IF Delays(l) = <<>> THEN e ELSE JsAdd(e, MathMin(Delays(l)))

\* C2 as stated: ElapsedTime is only ever changed by a tick adding its
\* least delay, and by the replay that sets it to 0
C2_OnlyTickChangesElapsed ==
  /\ \A id \in Ids :
       /\ StopAnimation(Start, id).elapsedTime = tk.elapsedTime
       /\ UnregisterAnimation(Start, id).elapsedTime = tk.elapsedTime
  /\ \A out \in TickOuts :
       MoveForward(Start, out).elapsedTime = AfterTick(tk.elapsedTime, MoveForward(Start, out).log)
  /\ \A id \in Ids, reset \in BOOLEAN : \A out \in RegisterOuts(id) :
       LET r == RegisterAnimation(Start, id, reset, out)
       IN r.elapsedTime = AfterTick(tk.elapsedTime, r.log)
  /\ \A out \in StartOuts :
       LET r == StartPreview(Start, out)
       IN r.elapsedTime = AfterTick(tk.elapsedTime, r.log)
  /\ TimerDue =>
       \A out \in TickOuts :
         LET r == PreviewLoop(Fired, out)
         IN r.elapsedTime = AfterTick(tk.elapsedTime, r.log)

\* the place of the last event of this name in l
LastAt(l, name) == CHOOSE i \in 1..Len(l) :
                     l[i][1] = name /\ \A j \in (i + 1)..Len(l) : l[j][1] # name

\* elapsedTime after a handler run that may have run the loop of the preview:
\* as it was (or as given) when the loop did not run, else the time since the
\* start of the preview plus the least delay of the tick of the loop
Resynced(r, otherwise) ==
  IF Has(r.log, "previewLoop")
  THEN LET k == LastAt(r.log, "previewLoop")
           tail == SubSeq(r.log, k, Len(r.log))
       IN /\ r.log[k][2] = JsSub(Num(now), r.previewStartTime)
          /\ r.elapsedTime = AfterTick(r.log[k][2], tail)
  ELSE r.elapsedTime = otherwise /\ Delays(r.log) = <<>>

\* C2, amended: ElapsedTime changes in three places only: a tick adds the
\* least delay of its callbacks; the loop of the preview (run by register,
\* startPreview, the replay and the timer) first sets it to the time since
\* the start of the preview; the replay sets it to 0.  stop and unregister
\* never change it.
C2_ElapsedChanges ==
  /\ \A id \in Ids :
       /\ StopAnimation(Start, id).elapsedTime = tk.elapsedTime
       /\ UnregisterAnimation(Start, id).elapsedTime = tk.elapsedTime
  /\ \A out \in TickOuts :
       MoveForward(Start, out).elapsedTime = AfterTick(tk.elapsedTime, MoveForward(Start, out).log)
  /\ \A id \in Ids, reset \in BOOLEAN : \A out \in RegisterOuts(id) :
       Resynced(RegisterAnimation(Start, id, reset, out), tk.elapsedTime)
  /\ \A out \in StartOuts :
       Resynced(StartPreview(Start, out), tk.elapsedTime)
  /\ TimerDue =>
       \A out \in TickOuts : Resynced(PreviewLoop(Fired, out), tk.elapsedTime)
  /\ \A again \in Agains : \A out \in ReplayOuts :
       Resynced(ReplayPreview(Start, again, out), Num(0))

\* C2 witness: in a preview a registration runs the loop, which sets
\* ElapsedTime back from where the ticks had brought it
C2_Witness ==
  /\ hasWindow
  /\ IsNum(tk.elapsedTime)
  /\ \E id \in Ids : \E out \in RegisterOuts(id) :
       LET r == RegisterAnimation(Start, id, TRUE, out)
       IN /\ Has(r.log, "previewLoop")
          /\ IsNum(r.elapsedTime) /\ AllNum(Delays(r.log))
          /\ r.elapsedTime.v < tk.elapsedTime.v + MathMin(Delays(r.log)).v

\* the callbacks of the handler run r saw no ElapsedTime below the one seen last
SeenNotBelow(r) ==
  \A i \in 1..Len(Loops(r.log)) :
    lastSeen # Undef =>
      /\ IsNum(lastSeen) /\ IsNum(Loops(r.log)[i][3])
      /\ Loops(r.log)[i][3].v >= lastSeen.v

\* C3: between two replays the ElapsedTime the callbacks observe never
\* decreases from one tick to the next
C3_ObservedElapsedNeverDecreases ==
  /\ InBound(tk) => \A out \in TickOuts : SeenNotBelow(MoveForward(Start, out))
  /\ TimerDue => \A out \in TickOuts : SeenNotBelow(PreviewLoop(Fired, out))
  /\ \A id \in Ids, reset \in BOOLEAN : \A out \in RegisterOuts(id) :
       SeenNotBelow(RegisterAnimation(Start, id, reset, out))

\* C4: a tick with no active task returns undefined and changes neither
\* ElapsedTime nor the two sets, and calls no callback
C4_EmptyTickDoesNothing ==
  Active = {} =>
    \A out \in TickOuts :
      LET r == MoveForward(Start, out)
      IN /\ r.ret = Undef
         /\ r.elapsedTime = tk.elapsedTime
         /\ r.animations = tk.animations
         /\ r.activeAnimations = tk.activeAnimations
         /\ Loops(r.log) = <<>>

\* C4 witness: a task is registered and stopped, time has elapsed, and the
\* tick returns undefined
C4_Witness ==
  /\ Active = {}
  /\ Keys(tk.animations) # {}
  /\ tk.elapsedTime = Num(1)
  /\ \E out \in TickOuts : MoveForward(Start, out).ret = Undef

\* C5: a callback that returns undefined is taken out of the active set by
\* the tick, stays registered, and adds nothing to the least delay
C5_UndefinedDeactivates ==
  \A out \in TickOuts :
    LET r == MoveForward(Start, out)
        nums == {out[i].ret.v : i \in {j \in Active : IsNum(out[j].ret)}}
    IN (\E id \in Active : out[id].ret = Undef) =>
         /\ \A id \in Active :
              out[id].ret = Undef =>
                id \notin Range(r.activeAnimations) /\ id \in Keys(r.animations)
         /\ r.ret = IF nums = {} THEN Undef ELSE Num(Least(nums))

\* C6: stop(id) takes id out of the active set and nothing else: the
\* registry, ElapsedTime and the other active ids stay, and for an id that
\* is not active the whole ticker stays as it was
C6_StopOnlyDeactivates ==
  \A id \in Ids :
    LET r == StopAnimation(Start, id)
    IN /\ r.animations = tk.animations
       /\ r.elapsedTime = tk.elapsedTime
       /\ r.activeAnimations = SelectSeq(tk.activeAnimations, LAMBDA x : x # id)
       /\ id \notin Active => Rest(r) = tk

\* C6 witness: two registered and active tasks, one with a reset, time has
\* elapsed, and stop(1) leaves 2 alone in the active set
C6_Witness ==
  /\ tk.activeAnimations = <<1, 2>>
  /\ Keys(tk.animations) = {1, 2}
  /\ WithReset(tk.animations) # {}
  /\ tk.elapsedTime = Num(1)
  /\ StopAnimation(Start, 1).activeAnimations = <<2>>
  /\ StopAnimation(Start, 1).animations = tk.animations

\* C7: unregister(id) is stop(id) and then the removal of id from the
\* registry: id is in neither set afterwards, the other entries stay, and
\* for an unknown id the whole ticker stays as it was
C7_UnregisterIsStopThenRemove ==
  \A id \in Ids :
    LET r == UnregisterAnimation(Start, id)
        st == StopAnimation(Start, id)
    IN /\ id \notin Range(r.activeAnimations)
       /\ id \notin Keys(r.animations)
       /\ r.animations = SelectSeq(tk.animations, LAMBDA e : e.id # id)
       /\ r.activeAnimations = st.activeAnimations
       /\ Rest([r EXCEPT !.animations = tk.animations]) = Rest(st)
       /\ (id \notin Active /\ id \notin Keys(tk.animations)) => Rest(r) = tk

\* C7 witness: two registered and active tasks, and unregister(1) leaves 2
\* alone in both sets
C7_Witness ==
  /\ tk.activeAnimations = <<1, 2>>
  /\ Keys(tk.animations) = {1, 2}
  /\ UnregisterAnimation(Start, 1).activeAnimations = <<2>>
  /\ Keys(UnregisterAnimation(Start, 1).animations) = {2}

\* C8: after every sequence of register, stop and unregister calls (those of
\* the callbacks included) the keys of the registry and the active set are
\* those of the reference model
C8_MatchesReference ==
  Abs(tk) = ref

\* C8 witness: both ids were registered, one was stopped and the other one
\* unregistered
C8_Witness ==
  /\ ref = [keys |-> {1}, active |-> {}]
  /\ Abs(tk) = ref

\* C9: in a preview, register() with another task active first cancels the
\* pending timeout, then runs one tick over all the active tasks, the new
\* one included, and the timeout it leaves pending is due after the least
\* delay of that tick; the cancelled timeout is not left to fire
C9_RegisterReticks ==
  hasWindow =>
    \A id \in Ids, reset \in BOOLEAN :
      Active \ {id} # {} =>
        \A out \in OutsFor(Active \cup {id}) :
          LET r == RegisterAnimation(Start, id, reset, out)
              ds == Delays(r.log)
              least == Least({ds[i].v : i \in 1..Len(ds)})
          IN /\ Len(r.log) >= 3
             /\ r.log[1] = <<"registerAnimation", id>>
             /\ r.log[2] = <<"clearTimeout", tk.previewTimeout.pending>>
             /\ r.log[3][1] = "previewLoop"
             /\ Len(SelectSeq(r.log, LAMBDA e : e[1] = "moveForward")) = 1
             /\ Range(Called(r.log)) = Active \cup {id}
             /\ Len(ds) = Cardinality(Active \cup {id})
             /\ r.orphans = tk.orphans
             /\ IF r.activeAnimations = <<>>
                THEN r.previewTimeout = NoTimer
                ELSE /\ r.previewTimeout.pending
                     /\ AllNum(ds) =>
                          r.previewTimeout.due = now + (IF least > 0 THEN least ELSE 0)

\* C9 witness: one task is waiting for a timeout due in 2, a second task is
\* registered and asks for 1: the timeout left pending is due in 1
C9_Witness ==
  /\ hasWindow
  /\ tk.activeAnimations = <<1>>
  /\ tk.previewTimeout = [pending |-> TRUE, due |-> now + 2]
  /\ \E out \in OutsFor({1, 2}) :
       /\ out[1].ret = Num(2) /\ out[2].ret = Num(1)
       /\ RegisterAnimation(Start, 2, TRUE, out).previewTimeout = [pending |-> TRUE, due |-> now + 1]
       /\ RegisterAnimation(Start, 2, TRUE, out).orphans = <<>>

\* C10: in a preview, every register() that makes the active set go from
\* empty to one task runs a tick and, the task staying active, leaves a
\* timeout pending for the delay the tick returned
C10_FirstRegisterStartsLoop ==
  (hasWindow /\ Active = {}) =>
    \A id \in Ids, reset \in BOOLEAN :
      \A out \in OutsFor({id}) :
        LET r == RegisterAnimation(Start, id, reset, out)
        IN /\ Called(r.log) = <<id>>
           /\ (r.activeAnimations # <<>> /\ IsNum(out[id].ret)) =>
                /\ r.previewTimeout.pending
                /\ r.previewTimeout.due = now + (IF out[id].ret.v > 0 THEN out[id].ret.v ELSE 0)

\* the timeouts that are pending: the one previewTimeout holds and those
\* whose handle was overwritten
PendingWakes(s) == (IF s.previewTimeout.pending THEN 1 ELSE 0) + Len(s.orphans)

\* C11: in a preview, between two calls, an empty active set comes with no
\* pending timeout
C11_NoWakeWhenIdle ==
  (hasWindow /\ Active = {}) => PendingWakes(tk) = 0

\* C12: at every moment at most one timeout is pending
C12_AtMostOneWake ==
  PendingWakes(tk) <= 1

\* C13: startPreview() on a ticker whose preview has started changes nothing
\* and calls nothing, and a second startPreview() right after a first one
\* leaves the ticker as the first one left it
C13_StartPreviewIdempotent ==
  /\ tk.previewStartTime # Undef =>
       \A out \in OutsFor(Active) :
         /\ Rest(StartPreview(Start, out)) = tk
         /\ StartPreview(Start, out).log = <<>>
  /\ \A out \in StartOuts :
       LET once == Rest(StartPreview(Start, out))
           twice == StartPreview(once, out)
       IN Rest(twice) = once /\ twice.log = <<>>

\* C13 witness: the preview runs with a timeout pending, time has passed
\* since it started, and startPreview() leaves all of it as it is
C13_Witness ==
  /\ tk.previewStartTime = Num(0) /\ now = 1
  /\ tk.previewTimeout.pending
  /\ Active # {}
  /\ \E out \in OutsFor(Active) :
       /\ out[CHOOSE i \in Active : TRUE].ret = Num(1)
       /\ Rest(StartPreview(Start, out)) = tk

\* the ids the handler run l called reset for, in call order
Resets(l) ==
  LET rs == SelectSeq(l, LAMBDA e : e[1] = "reset")
  IN [i \in 1..Len(rs) |-> rs[i][2]]

\* the ids, in the order of the registry, of the entries that have a reset
ResetOrder(m) ==
  LET es == SelectSeq(m, LAMBDA e : e.reset)
  IN [i \in 1..Len(es) |-> es[i].id]

\* the ids the handler run l called stopAnimation for
Stopped(l) == {l[i][2] : i \in {j \in 1..Len(l) : l[j][1] = "stopAnimation"}}

\* the replay sets elapsedTime to 0 (the loop it restarts ticks from there)
\* and calls reset once for each entry of the registry that has one
ReplayResets(r) ==
  /\ Resynced(r, Num(0))
  /\ Has(r.log, "previewLoop") => r.log[LastAt(r.log, "previewLoop")][2] = Num(0)
  /\ Resets(r.log) = ResetOrder(tk.animations)
  /\ Keys(r.animations) = Keys(tk.animations)

\* C14 as stated: the replay sets ElapsedTime to 0, calls reset exactly once
\* for every registered task that has one, and when it returns the active
\* set is the set of all registered ids
C14_ReplayReactivatesAll ==
  \A again \in Agains : \A out \in ReplayOuts :
    LET r == ReplayPreview(Start, again, out)
    IN /\ ReplayResets(r)
       /\ Range(r.activeAnimations) = Keys(r.animations)

\* the reset callbacks that unregister their animation, those of again aside
Gones(again) == SUBSET (WithReset(tk.animations) \ again)

\* the callbacks a replay may call: they return, stop or throw (a callback
\* that restarts its animation keeps the tick from returning)
ReplayHardOuts ==
  {out \in HardOutsFor(Active \cup Keys(tk.animations)) : \A i \in Ids : out[i] # Restarting}

\* the places in the log l of a replay of the calls of reset for the entries
\* that come after entry i of the registry m
LaterResets(l, m, i) ==
  {k \in 1..Len(l) : l[k][1] = "reset" /\ \E j \in (i + 1)..Len(m) : m[j].id = l[k][2]}

\* the loop of the preview at place k of the log l was run by a reset
\* callback that registered its animation: with a window, register runs the
\* loop right away or after its clearTimeout
ByRegister(l, k) ==
  /\ hasWindow
  /\ k > 1
  /\ \/ l[k - 1][1] = "registerAnimation"
     \/ k > 2 /\ l[k - 1][1] = "clearTimeout" /\ l[k - 2][1] = "registerAnimation"

\* the places in the log l of the loop that the startPreview at the end of
\* the replay ran
AtRestart(l) == {k \in 1..Len(l) : l[k][1] = "previewLoop" /\ ~ByRegister(l, k)}

\* the place in the log l from which on entry i of the registry m is
\* reactivated: what follows is run by the reset callbacks of later entries or
\* by the startPreview at the end
Reactivated(l, m, i) ==
  Least(LaterResets(l, m, i) \cup AtRestart(l) \cup {Len(l) + 1})

\* the ids the replay with the log l reactivated and no callback stopped
\* afterwards, m being the registry when the replay began
StillActive(l, m) ==
  {m[i].id : i \in {j \in 1..Len(m) :
     \A k \in Reactivated(l, m, j)..Len(l) :
       ~(l[k][1] = "stopAnimation" /\ l[k][2] = m[j].id)}}

\* the sequence p is the start of the sequence q
Prefix(p, q) == Len(p) <= Len(q) /\ p = SubSeq(q, 1, Len(p))

\* C14, amended: the replay sets ElapsedTime to 0 before it calls anything
\* and the loop it restarts ticks from 0; it calls reset once, in the order
\* of the registry, for every registered task that has one, and reactivates
\* each registered task after its reset; when it returns the active set is
\* the set of the ids that were registered when it began except those a
\* callback stopped after the replay reactivated them (a task its own reset
\* unregisters is reactivated all the same and is active on return).  A
\* callback that throws ends the replay where it is: the resets called by
\* then are the first of the registry, each called once.
C14_ReplayActiveOnReturn ==
  \A again \in Agains : \A gone \in Gones(again) : \A out \in ReplayHardOuts :
    LET r == ReplayPreviewGone(Start, again, gone, out)
    IN /\ r.log[1][1] = "clearTimeout"
       /\ Prefix(Resets(r.log), ResetOrder(tk.animations))
       /\ ~r.thrown =>
            /\ Resynced(r, Num(0))
            /\ \A k \in AtRestart(r.log) : r.log[k][2] = Num(0)
            /\ Resets(r.log) = ResetOrder(tk.animations)
            /\ Range(r.activeAnimations) = StillActive(r.log, tk.animations)

\* C14 witness: with a window, a registered task that was stopped has a reset
\* that registers it again and a callback that stops it; the loop the reset
\* starts stops the task, the replay reactivates it after the reset and it is
\* active on return
C14_Witness ==
  /\ hasWindow
  /\ Keys(tk.animations) = {1}
  /\ WithReset(tk.animations) = {1}
  /\ Active = {}
  /\ tk.elapsedTime = Num(1)
  /\ \E out \in ReplayHardOuts :
       LET r == ReplayPreviewGone(Start, {1}, {}, out)
       IN /\ out[1].stop
          /\ ~r.thrown
          /\ Resets(r.log) = <<1>>
          /\ 1 \in Stopped(r.log)
          /\ Loops(r.log)[1][3] = Num(0)
          /\ Range(r.activeAnimations) = {1}

\* the handler run l scheduled no timeout and ran no loop of the preview
NoLoop(l) == ~Has(l, "setTimeout") /\ ~Has(l, "previewLoop")

\* C15: without a window no call of register, stop, unregister, tick or
\* replay schedules a timeout or runs the loop of the preview, and only
\* tick calls the callbacks
C15_NoTimerWithoutWindow ==
  ~hasWindow =>
    /\ \A id \in Ids, reset \in BOOLEAN : \A out \in OutsFor(Active \cup {id}) :
         /\ NoLoop(RegisterAnimation(Start, id, reset, out).log)
         /\ Loops(RegisterAnimation(Start, id, reset, out).log) = <<>>
    /\ \A id \in Ids :
         /\ NoLoop(StopAnimation(Start, id).log)
         /\ NoLoop(UnregisterAnimation(Start, id).log)
    /\ \A out \in TickOuts : NoLoop(MoveForward(Start, out).log)
    /\ \A again \in Agains : \A out \in ReplayOuts :
         /\ NoLoop(ReplayPreview(Start, again, out).log)
         /\ Loops(ReplayPreview(Start, again, out).log) = <<>>

\* C16: without a window, two runs given the same calls of register, stop,
\* unregister and tick, with callbacks that answer the same, have the same
\* ElapsedTime and the same sets after every call, and every tick returns
\* the same in both, whatever their clocks read
C16_SameUnderAnyClock ==
  /\ twin.elapsedTime = tk.elapsedTime
  /\ twin.activeAnimations = tk.activeAnimations
  /\ twin.animations = tk.animations
  /\ \A out \in TickOuts, n \in TwinClock :
       /\ TwinMoveForward(n, TwinStart, out).ret = MoveForward(Start, out).ret
       /\ TwinMoveForward(n, TwinStart, out).elapsedTime = MoveForward(Start, out).elapsedTime
       /\ Delays(TwinMoveForward(n, TwinStart, out).log) = Delays(MoveForward(Start, out).log)

\* C16 witness: the two runs have ticked under clocks that read differently,
\* time has elapsed, and the next tick returns 1 in both
C16_Witness ==
  /\ IsNum(tk.currentTime) /\ IsNum(twin.currentTime)
  /\ twin.currentTime # tk.currentTime
  /\ tk.elapsedTime = Num(1)
  /\ \E out \in TickOuts :
       /\ MoveForward(Start, out).ret = Num(1)
       /\ TwinMoveForward(0, TwinStart, out).ret = Num(1)

\* in the handler run l every tick that returned a delay is followed at once
\* by one drawScene, a tick that returned undefined by none, and drawScene
\* is called nowhere else
DrawRule(l) ==
  /\ \A k \in 1..Len(l) :
       l[k][1] = "moveForward" =>
         IF l[k][2] # Undef
         THEN k < Len(l) /\ l[k + 1][1] = "drawScene"
         ELSE k = Len(l) \/ l[k + 1][1] # "drawScene"
  /\ \A k \in 1..Len(l) :
       l[k][1] = "drawScene" => (k > 1 /\ l[k - 1][1] = "moveForward")

\* C17: drawScene is called exactly once for every tick that advanced the
\* time, after the callbacks of that tick, and not for a tick that returned
\* undefined
C17_DrawOncePerAdvancingTick ==
  /\ \A out \in TickOuts : DrawRule(MoveForward(Start, out).log)
  /\ TimerDue => \A out \in TickOuts : DrawRule(PreviewLoop(Fired, out).log)
  /\ \A id \in Ids, reset \in BOOLEAN : \A out \in RegisterOuts(id) :
       DrawRule(RegisterAnimation(Start, id, reset, out).log)

\* how many times the handler run l called the callback of id
CallsOf(l, id) == Len(SelectSeq(Loops(l), LAMBDA e : e[2] = id))

\* C18: without a window, a tick calls the callback of each task at most
\* once and ends after a bounded number of calls, also when a callback stops
\* its own task and registers it again
C18_TickCallsEachOnce ==
  ~hasWindow =>
    \A out \in HardOutsFor(Active) :
      (\A id \in Ids : out[id] # Throwing) =>
        LET r == MoveForward(Start, out)
        IN /\ \A id \in Ids : CallsOf(r.log, id) <= 1
           /\ Len(Loops(r.log)) < MaxCalls

\* the ids of ids whose callback does not throw
Sound(out, ids) == {i \in ids : out[i] # Throwing}

\* C19: a callback that throws in a tick is taken out of the active set,
\* the callbacks of the other active tasks are all called in that tick, the
\* tick returns the least of their delays, and in a preview the loop leaves
\* a timeout pending for the tasks that remain
C19_ThrowIsIsolated ==
  \A out \in HardOutsFor(Active) :
    ((\E id \in Active : out[id] = Throwing) /\ (\A id \in Ids : out[id] # Restarting)) =>
      /\ LET r == MoveForward(Start, out)
             ds == {out[i].ret : i \in Sound(out, Active)}
         IN /\ \A id \in Active : out[id] = Throwing => id \notin Range(r.activeAnimations)
            /\ \A id \in Sound(out, Active) : CallsOf(r.log, id) = 1
            /\ (ds # {} /\ \A d \in ds : IsNum(d)) =>
                 r.ret = Num(Least({d.v : d \in ds}))
      /\ (hasWindow /\ TimerDue) =>
           LET r == PreviewLoop(Fired, out)
           IN r.activeAnimations # <<>> => r.previewTimeout.pending

\* C20: a negative or non-numeric delay counts as 0: a tick returns no
\* negative and no non-numeric value, and ElapsedTime neither decreases nor
\* stops being a number
C20_InvalidDelayIsZero ==
  IsNum(tk.elapsedTime) =>
    \A out \in TickOuts :
      LET r == MoveForward(Start, out)
      IN (\A id \in Active : IsNum(out[id].ret)) =>
         /\ r.ret = Undef \/ (IsNum(r.ret) /\ r.ret.v >= 0)
         /\ IsNum(r.elapsedTime) /\ r.elapsedTime.v >= tk.elapsedTime.v

\* the handler run l cancelled a pending timeout
Cancelled(l) == \E i \in 1..Len(l) : l[i] = <<"clearTimeout", TRUE>>

\* the callback of a timeout, run on s, calls no loop callback, leaves
\* elapsedTime alone, draws nothing and schedules nothing
StaleNoOp(s, out) ==
  LET r == PreviewLoop(s, out)
  IN /\ Loops(r.log) = <<>>
     /\ r.elapsedTime = s.elapsedTime
     /\ ~Has(r.log, "drawScene")
     /\ ~Has(r.log, "setTimeout")

\* C21: the callback of a timeout that register or stop cancelled, should
\* the host run it all the same, does nothing: no callback is called,
\* ElapsedTime stays, nothing is drawn and no timeout is scheduled
C21_CancelledTimerIsNoOp ==
  hasWindow =>
    /\ \A id \in Ids, reset \in BOOLEAN : \A out \in RegisterOuts(id) :
         LET r == RegisterAnimation(Start, id, reset, out)
         IN Cancelled(r.log) =>
              \A late \in OutsFor(Range(r.activeAnimations)) : StaleNoOp(Rest(r), late)
    /\ \A id \in Ids :
         LET r == StopAnimation(Start, id)
         IN Cancelled(r.log) =>
              \A late \in OutsFor(Range(r.activeAnimations)) : StaleNoOp(Rest(r), late)

(* ------------------------ the animated image -------------------------- *)
\* the place of the last call of the loop callback among the events l, or 0
RECURSIVE LoopAt(_)
LoopAt(l) ==
  IF l = <<>> THEN 0
  ELSE IF l[Len(l)][1] = "loop" THEN Len(l)
  ELSE LoopAt(SubSeq(l, 1, Len(l) - 1))

\* what the last call of the loop callback did to the image
CallActs(a) == IF LoopAt(a.acts) = 0 THEN <<>> ELSE SubSeq(a.acts, LoopAt(a.acts) + 1, Len(a.acts))

Makes(l) == SelectSeq(l, LAMBDA e : e[1] = "makeImageAtCurrentFrame")
Decodes(l) == SelectSeq(l, LAMBDA e : e[1] = "decodeNextFrame")

\* the image made, if any, is the last thing done to the decoder
MadeLast(l) ==
  \A i \in 1..Len(l) : l[i][1] = "decodeNextFrame" =>
    \E j \in (i + 1)..Len(l) : l[j][1] = "makeImageAtCurrentFrame"

\* C22: a call of the loop callback of an animated image makes one image
\* at most, however many frames it decodes, and the image it makes is the
\* frame it decoded last.
C22_OneImagePerCall ==
  /\ Len(Makes(CallActs(img))) <= 1
  /\ Decodes(CallActs(img)) # <<>> =>
       /\ Len(Makes(CallActs(img))) = 1
       /\ MadeLast(CallActs(img))
       /\ Makes(CallActs(img))[1][2] = img.cursor
       /\ img.shown = img.cursor

\* a call has decoded two frames and made one image, of the frame at index 2
C22_Witness ==
  /\ Len(Decodes(CallActs(img))) = 2
  /\ Len(Makes(CallActs(img))) = 1
  /\ img.cursor = 2
  /\ img.shown = 2

\* the last call of the loop callback moved the decoder to the last frame
ReachedLast(a) ==
  /\ Decodes(CallActs(a)) # <<>>
  /\ a.cursor = GetFrameCount(a) - 1

\* C23: a call of the loop callback that moves the decoder to the last
\* frame, frame by frame or skipping frames, stops the animation in that
\* call: its id leaves activeAnimations and stays in animations with its
\* reset callback.
C23_LastFrameStops ==
  ReachedLast(img) =>
    /\ Stops(img)
    /\ img.id \notin Range(tk.activeAnimations)
    /\ img.id \in WithReset(tk.animations)

\* the loop callback was called in the last handler run
WasCalled(a) == LoopAt(a.acts) > 0

\* the elapsed time the last call of the loop callback found
SeenBy(a) == a.acts[LoopAt(a.acts)][2]

\* the callback leaves its animation active, and returns a delay above 0
PositiveWhileActive ==
  (WasCalled(img) /\ ~Stops(img)) => (IsNum(img.ret) /\ img.ret.v > 0)

\* C24: the loop callback of an animated image returns animationTime -
\* elapsedTime, above 0 when its animation is still active after the call,
\* and no number when the call stopped the animation.
C24_DelayOrNoMoreWork ==
  WasCalled(img) =>
    /\ ~Stops(img) =>
         /\ img.ret = JsSub(Num(img.animationTime), SeenBy(img))
         /\ IsNum(img.ret) /\ img.ret.v > 0
    /\ Stops(img) => ~IsNum(img.ret)

\* C25: the loop callback of an animated image decodes a frame only while
\* frames remain after the one the decoder is on, so that from one
\* _startAnimation to the stop of the animation the decoder is never asked
\* for a frame after the last one.
C25_DecodesOnlyRemainingFrames ==
  \A i \in 1..Len(Decodes(CallActs(img))) :
    Decodes(CallActs(img))[i][2] < GetFrameCount(img) - 1

\* the sum of the durations of the first k frames: the time at which the
\* frame of index k starts
RECURSIVE StartOfFrame(_, _)
StartOfFrame(a, k) == IF k = 0 THEN 0 ELSE StartOfFrame(a, k - 1) + a.durations[k]

\* the frame the decoder was on when the last call of the callback began
CursorBefore(a) ==
  IF Decodes(CallActs(a)) = <<>> THEN a.cursor ELSE Decodes(CallActs(a))[1][2]

\* the frames after that one that have started by the elapsed time e
Due(a, e) ==
  {k \in (CursorBefore(a) + 1)..(GetFrameCount(a) - 1) :
     IsNum(e) /\ StartOfFrame(a, k) <= e.v}

\* C26: after a call of the loop callback of an animated image,
\* animationTime is the sum of the durations of the frames from the first
\* to the one the decoder is on, the elapsed time is below it when the
\* animation is still active, and the call has decoded as many frames as
\* have started since the call before.
C26_TargetTimeIsCumulative ==
  WasCalled(img) =>
    /\ img.animationTime = StartOfFrame(img, img.cursor + 1)
    /\ (~Stops(img) /\ IsNum(SeenBy(img))) => SeenBy(img).v < img.animationTime
    /\ Len(Decodes(CallActs(img))) = Cardinality(Due(img, SeenBy(img)))

\* the shape as _startAnimation leaves it, its animation registered with a
\* reset callback and active
AsStarted(a, s) ==
  /\ a.cursor = 0
  /\ a.shown = 0
  /\ a.animationTime = a.durations[1]
  /\ a.id \in Range(s.activeAnimations)
  /\ a.id \in WithReset(s.animations)

\* C27: replayPreview on a ticker that holds the animation of an animated
\* image, stopped or under way, leaves the shape as _startAnimation left
\* it at first: the first frame decoded and displayed, animationTime the
\* duration of that frame, the id active and registered with its reset
\* callback.
C27_ReplayRestoresFirstFrame == [][FrameReplay => AsStarted(img', tk')]_vars

(* ------------------------ the loop of the preview ---------------------- *)
\* the steps of previewLoop among the events l
Steps(l) ==
  SelectSeq(l, LAMBDA e : e[1] \in {"previewLoop", "moveForward", "drawScene", "setTimeout"})

\* the steps of one iteration that found the elapsed time e, whose tick
\* returned ret, and that set a timeout or not
StepsOf(e, ret, wakes) ==
  <<(<<"previewLoop", e>>), (<<"moveForward", ret>>), (<<"drawScene">>)>>
    \o (IF wakes THEN <<(<<"setTimeout", ret>>)>> ELSE <<>>)

\* one call of previewLoop on the ticker s
Iteration(s, out) ==
  LET r == PreviewLoop(s, out)
      e == JsSub(Num(now), s.previewStartTime)
  IN IF s.activeAnimations = <<>>
     THEN /\ r.previewStartTime = Undef
          /\ r.log = <<>>
          /\ r.elapsedTime = s.elapsedTime
     ELSE /\ Steps(r.log) = StepsOf(e, r.ret, r.ret # Undef /\ r.activeAnimations # <<>>)
          /\ r.log[1][1] = "previewLoop"
          /\ \A i \in 1..Len(r.log) :
               r.log[i][1] = "loop" => (r.log[i][3] = e /\ i < LastAt(r.log, "moveForward"))
          /\ r.previewTimeout.pending = (r.ret # Undef /\ r.activeAnimations # <<>>)

\* a timeout whose handle was overwritten is due
OrphansDue == {i \in 1..Len(tk.orphans) : now >= tk.orphans[i]}

\* C28: an iteration of the loop of the preview sets elapsedTime to the
\* time since the start of the preview, then runs one tick, then draws,
\* and sets the next timeout exactly when the tick returned a delay and an
\* animation is active after it, with the value the tick returned as the
\* delay; with no active animation on entry it clears previewStartTime
\* and does nothing else.
C28_IterationOrder ==
  /\ TimerDue => \A out \in TickOuts : Iteration(Fired, out)
  /\ \A i \in OrphansDue : \A out \in TickOuts : Iteration(Orphaned(i), out)

\* the timer is due: with some callbacks the iteration sets the next
\* timeout, with others, which stop their animations, it draws and sets none
C28_Witness ==
  /\ TimerDue
  /\ \E out \in TickOuts : Has(PreviewLoop(Fired, out).log, "setTimeout")
  /\ \E out \in TickOuts :
       /\ Has(PreviewLoop(Fired, out).log, "drawScene")
       /\ ~Has(PreviewLoop(Fired, out).log, "setTimeout")

\* C29: with a window, whenever a call of the ticker or a timeout callback
\* has returned and an animation is active, a timeout of the preview is
\* pending, so that every active animation is called again.
C29_ActiveImpliesWake ==
  (hasWindow /\ tk.activeAnimations # <<>>) => tk.previewTimeout.pending

\* every iteration of the loop of the preview in the handler run l found a
\* number as the elapsed time
Defined(l) == \A i \in 1..Len(l) : l[i][1] = "previewLoop" => IsNum(l[i][2])

\* C30: every iteration of the loop of the preview runs with
\* previewStartTime set and computes a number as elapsedTime, whether
\* previewLoop is called by startPreview, by a timeout, by registerAnimation
\* while the preview is running, or by a registerAnimation that a reset
\* callback calls during replayPreview.
C30_ResyncIsDefined ==
  hasWindow =>
    /\ \A out \in StartOuts : Defined(StartPreview(Start, out).log)
    /\ TimerDue => \A out \in TickOuts : Defined(PreviewLoop(Fired, out).log)
    /\ \A id \in Ids, reset \in BOOLEAN : \A out \in RegisterOuts(id) :
         Defined(RegisterAnimation(Start, id, reset, out).log)
    /\ Orphanless =>
         \A again \in Agains : \A out \in ReplayOuts :
           Defined(ReplayPreview(Start, again, out).log)

(* ------------------------- active and registered ---------------------- *)
Within(s) == Range(s.activeAnimations) \subseteq Keys(s.animations)

\* C31: the active ids are registered ids in every state the calls of
\* register, stop, unregister, tick and replay lead to, calls made by
\* callbacks included, so that a tick finds an entry for every active id.
C31_ActiveWithinRegistry ==
  /\ Within(tk)
  /\ Orphanless =>
       \A again \in Agains : \A gone \in Gones(again) : \A out \in ReplayOuts :
         Within(ReplayPreviewGone(Start, again, gone, out))

(* --------------------------- the call returns -------------------------- *)
\* C32: every call of the loop callback of an animated image returns: with
\* two frames or more, frames that last 0 or longer and any elapsed time,
\* the while loop ends after finitely many passes.
C32_CallbackReturns == <>(img.ret # Undef)

====
